---- MODULE Spec2Model ----
\* Model of cssSelectorBuilder (src/src/05-objects-tasks.js).
\* Every selector object ever produced is kept in `heap`; heap[1] is the facade
\* object cssSelectorBuilder itself (no `res` field, i.e. the empty sequence).
\* A fragment is a record [type |-> kind, value |-> text].
EXTENDS Integers, Sequences, FiniteSets, TLC

\* ---------------------------------------------------------------- bounds
MaxHeap == 3
Values == {"a"}
Combinators == {"+", "zz"}

\* ---------------------------------------------------------------- constants of the code
\* const order = ['element', 'id', 'class', 'attribute', 'pseudo-class', 'pseudo-element']
order == <<"element", "id", "class", "attribute", "pseudo-class", "pseudo-element">>

AppendKinds == {"element", "id", "class", "attribute", "pseudo-class", "pseudo-element"}

\* kinds whose method runs the TWICE_ERROR check (element, id, pseudoElement)
SingletonKinds == {"element", "id", "pseudo-element"}

RankSwapped(t) == IF t = "id" THEN 2 ELSE IF t = "class" THEN 1
                  ELSE IF \E i \in 1..Len(order) : order[i] = t
                       THEN CHOOSE i \in 0..(Len(order) - 1) : order[i + 1] = t
                       ELSE -1

\* order.indexOf(type): -1 when the type is not in the list (e.g. 'combinator')
Rank(t) == IF \E i \in 1..Len(order) : order[i] = t
           THEN CHOOSE i \in 0..(Len(order) - 1) : order[i + 1] = t
           ELSE -1

HasKindLast(s, k) == Len(s) > 0 /\ s[Len(s)].type = k

\* this.res.filter((val) => val.type === k).length !== 0
HasKind(s, k) == \E i \in 1..Len(s) : s[i].type = k

IsSortedVsFirst(s) == \A i \in 2..Len(s) : Rank(s[1].type) <= Rank(s[i].type)

IsSortedStrict(s) == \A i \in 2..Len(s) : Rank(s[i - 1].type) < Rank(s[i].type)

\* throwErrorIfNotSorted: every adjacent pair satisfies indexOf(prev) <= indexOf(cur)
IsSorted(s) == \A i \in 2..Len(s) : Rank(s[i - 1].type) <= Rank(s[i].type)

AppendResultOrderFirst(s, k, v) ==
  IF ~IsSorted(Append(s, [type |-> k, value |-> v])) THEN "order"
  ELSE IF k \in SingletonKinds /\ HasKind(s, k) THEN "dup"
  ELSE "ok"

\* Outcome of element/id/class/attr/pseudoClass/pseudoElement on receiver s:
\* the duplicate check (singleton kinds only) runs before the append and sort check.
AppendResult(s, k, v) ==
  IF k \in SingletonKinds /\ HasKind(s, k) THEN "dup"
  ELSE IF ~IsSorted(Append(s, [type |-> k, value |-> v])) THEN "order"
  ELSE "ok"

CombineResNoSecond(s1, c, s2) == s1 \o <<[type |-> "combinator", value |-> c]>>

\* combine(selector1, combinator, selector2).res
CombineRes(s1, c, s2) == s1 \o <<[type |-> "combinator", value |-> c]>> \o s2

FormatNoTrail(f) ==
  CASE f.type = "id"             -> "#" \o f.value
    [] f.type = "class"          -> "." \o f.value
    [] f.type = "attribute"      -> "[" \o f.value \o "]"
    [] f.type = "pseudo-class"   -> ":" \o f.value
    [] f.type = "pseudo-element" -> "::" \o f.value
    [] f.type = "combinator"     -> " " \o f.value
    [] OTHER                     -> f.value

\* formatSelector[obj.type] || formatSelector.default
Format(f) ==
  CASE f.type = "id"             -> "#" \o f.value
    [] f.type = "class"          -> "." \o f.value
    [] f.type = "attribute"      -> "[" \o f.value \o "]"
    [] f.type = "pseudo-class"   -> ":" \o f.value
    [] f.type = "pseudo-element" -> "::" \o f.value
    [] f.type = "combinator"     -> " " \o f.value \o " "
    [] OTHER                     -> f.value

\* (this.res || []).reduce((acc, obj) => acc + format(obj), '')
RECURSIVE Reduce(_, _, _)
Reduce(s, i, acc) == IF i > Len(s) THEN acc ELSE Reduce(s, i + 1, acc \o Format(s[i]))

Stringify(s) == Reduce(s, 1, "")

NewHeapInPlace(h, src, s) == [Append(h, s) EXCEPT ![src] = s]

\* a successful operation returns a fresh object { ...this, res: [...] }
NewHeap(h, src, s) == Append(h, s)

\* ---------------------------------------------------------------- state
VARIABLES heap, lastOp
vars == <<heap, lastOp>>

NoOp == [op |-> "none", src |-> 0, src2 |-> 0, kind |-> "", val |-> "",
         result |-> "", str |-> "", out |-> <<>>]

Init == /\ heap = <<<<>>>>
        /\ lastOp = NoOp

\* element / id / class / attr / pseudoClass / pseudoElement called on heap[i];
\* a returned selector is kept in heap while there is room, otherwise it is
\* only observed through lastOp.out (the caller discards it).
AppendOp(i, k, v) ==
  LET s == heap[i]
      r == AppendResult(s, k, v)
      new == Append(s, [type |-> k, value |-> v])
  IN /\ heap' = IF r = "ok" /\ Len(heap) < MaxHeap THEN NewHeap(heap, i, new) ELSE heap
     /\ lastOp' = [op |-> "append", src |-> i, src2 |-> 0, kind |-> k, val |-> v,
                   result |-> r, str |-> "", out |-> IF r = "ok" THEN new ELSE <<>>]

\* cssSelectorBuilder.combine(heap[i], c, heap[j]) (never throws)
CombineOp(i, c, j) ==
  LET new == CombineRes(heap[i], c, heap[j])
  IN /\ heap' = IF Len(heap) < MaxHeap THEN NewHeap(heap, i, new) ELSE heap
     /\ lastOp' = [op |-> "combine", src |-> i, src2 |-> j, kind |-> "combinator", val |-> c,
                   result |-> "ok", str |-> "", out |-> new]

\* heap[i].stringify()
StringifyOp(i) ==
  /\ heap' = heap
  /\ lastOp' = [op |-> "stringify", src |-> i, src2 |-> 0, kind |-> "", val |-> "",
                result |-> "ok", str |-> Stringify(heap[i]), out |-> <<>>]

Next ==
  \/ \E i \in 1..Len(heap), k \in AppendKinds, v \in Values : AppendOp(i, k, v)
  \/ \E i \in 1..Len(heap), c \in Combinators, j \in 1..Len(heap) : CombineOp(i, c, j)
  \/ \E i \in 1..Len(heap) : StringifyOp(i)

Spec == Init /\ [][Next]_vars

\* ---------------------------------------------------------------- properties
\* Rank of each appendable kind as the documentation lists it.
SpecRank(k) == CASE k = "element" -> 0 [] k = "id" -> 1 [] k = "class" -> 2
                 [] k = "attribute" -> 3 [] k = "pseudo-class" -> 4
                 [] k = "pseudo-element" -> 5 [] OTHER -> 99

Recv == heap[lastOp.src]

NoCombinator(s) == \A i \in 1..Len(s) : s[i].type # "combinator"

DupFree(s, k) == k \notin {"element", "id", "pseudo-element"} \/ \A i \in 1..Len(s) : s[i].type # k

\* C1 (as stated): on a selector built only by appends, an append of kind k
\* succeeds iff the duplicate condition holds and the last fragment's rank is
\* <= rank(k), and whenever the rank condition fails the out-of-order error is raised.
C1_AsStated ==
  (lastOp.op = "append" /\ NoCombinator(Recv)) =>
    LET k == lastOp.kind
        rankOk == Recv = <<>> \/ SpecRank(Recv[Len(Recv)].type) <= SpecRank(k)
    IN /\ (lastOp.result = "ok") <=> (DupFree(Recv, k) /\ rankOk)
       /\ ~rankOk => lastOp.result = "order"

\* C1 (amended): on a selector built only by appends, an append of kind k succeeds
\* iff the duplicate condition holds and the last fragment's rank is <= rank(k);
\* the out-of-order error is raised iff the duplicate condition holds and the rank
\* condition fails (a duplicate singleton gives the duplicate error instead).
C1_AppendOrder ==
  (lastOp.op = "append" /\ NoCombinator(Recv)) =>
    LET k == lastOp.kind
        rankOk == Recv = <<>> \/ SpecRank(Recv[Len(Recv)].type) <= SpecRank(k)
    IN /\ (lastOp.result = "ok") <=> (DupFree(Recv, k) /\ rankOk)
       /\ (lastOp.result = "order") <=> (DupFree(Recv, k) /\ ~rankOk)

\* out-of-order on a two-fragment receiver whose first fragment ranks below k
C1_Witness ==
  /\ lastOp.op = "append" /\ NoCombinator(Recv) /\ lastOp.result = "order"
  /\ Len(Recv) = 2 /\ SpecRank(Recv[1].type) <= SpecRank(lastOp.kind)

\* C2: element/id/pseudoElement on a selector that contains a fragment of that kind
\* anywhere (combined selectors included) raise the duplicate error; class, attr and
\* pseudoClass never raise it.
C2_Duplicate ==
  lastOp.op = "append" =>
    /\ (lastOp.kind \in {"element", "id", "pseudo-element"}
         /\ \E i \in 1..Len(Recv) : Recv[i].type = lastOp.kind) => lastOp.result = "dup"
    /\ lastOp.kind \in {"class", "attribute", "pseudo-class"} => lastOp.result # "dup"

C2_Witness ==
  /\ lastOp.op = "append" /\ lastOp.result = "dup"
  /\ Len(Recv) >= 2 /\ Recv[Len(Recv)].type # lastOp.kind

\* C3: when a singleton append would both duplicate and break rank order, the
\* duplicate error is raised.
C3_Case ==
  /\ lastOp.op = "append" /\ lastOp.kind \in {"element", "id", "pseudo-element"}
  /\ \E i \in 1..Len(Recv) : Recv[i].type = lastOp.kind
  /\ Len(Recv) > 0 /\ SpecRank(Recv[Len(Recv)].type) > SpecRank(lastOp.kind)

C3_DupFirst == C3_Case => lastOp.result = "dup"

C3_Witness == C3_Case /\ NoCombinator(Recv)

\* Fragments of s after its last combinator fragment.
AfterLastCombinator(s) ==
  LET idx == {i \in 1..Len(s) : s[i].type = "combinator"}
      m == IF idx = {} THEN 0 ELSE CHOOSE i \in idx : \A j \in idx : j <= i
  IN SubSeq(s, m + 1, Len(s))

SpecSorted(s) == \A i \in 2..Len(s) : SpecRank(s[i - 1].type) <= SpecRank(s[i].type)

\* C4: on a combined selector, an append of kind k succeeds whenever the duplicate
\* condition holds and the fragments after the last combinator, extended by k, are
\* in non-decreasing rank order.
C4_CombinatorExempt ==
  (/\ lastOp.op = "append" /\ ~NoCombinator(Recv) /\ DupFree(Recv, lastOp.kind)
   /\ SpecSorted(Append(AfterLastCombinator(Recv), [type |-> lastOp.kind, value |-> lastOp.val])))
    => lastOp.result = "ok"

\* Rendering of one fragment as the documentation describes it.
SpecPrefix(k) == CASE k = "id" -> "#" [] k = "class" -> "." [] k = "attribute" -> "["
                   [] k = "pseudo-class" -> ":" [] k = "pseudo-element" -> "::"
                   [] k = "combinator" -> " " [] OTHER -> ""
SpecSuffix(k) == CASE k = "attribute" -> "]" [] k = "combinator" -> " " [] OTHER -> ""

RECURSIVE SpecRender(_)
SpecRender(s) == IF s = <<>> THEN ""
                 ELSE SpecRender(SubSeq(s, 1, Len(s) - 1))
                      \o SpecPrefix(s[Len(s)].type) \o s[Len(s)].value \o SpecSuffix(s[Len(s)].type)

\* C5: stringify renders the fragments left to right, each by its kind, and the
\* facade stringifies to the empty string.
C5_Stringify ==
  /\ lastOp.op = "stringify" => lastOp.str = SpecRender(Recv)
  /\ (lastOp.op = "stringify" /\ lastOp.src = 1) => lastOp.str = ""

C5_Witness ==
  /\ lastOp.op = "stringify" /\ ~NoCombinator(Recv)
  /\ \E i \in 1..Len(Recv) : Recv[i].type \in {"id", "attribute", "pseudo-element"}

\* C6: combine(A, c, B) never fails, its sequence is A ++ [combinator c] ++ B, and
\* its string is stringify(A) + ' ' + c + ' ' + stringify(B).
C6_Combine ==
  lastOp.op = "combine" =>
    LET a == heap[lastOp.src]
        b == heap[lastOp.src2]
        r == lastOp.out
    IN /\ lastOp.result = "ok"
       /\ Len(r) = Len(a) + 1 + Len(b)
       /\ \A i \in 1..Len(a) : r[i] = a[i]
       /\ r[Len(a) + 1] = [type |-> "combinator", value |-> lastOp.val]
       /\ \A i \in 1..Len(b) : r[Len(a) + 1 + i] = b[i]
       /\ Stringify(r) = Stringify(a) \o " " \o lastOp.val \o " " \o Stringify(b)

\* nested combine: a non-empty A combined with an already combined B
C6_Witness ==
  /\ lastOp.op = "combine" /\ Len(heap[lastOp.src]) >= 1
  /\ ~NoCombinator(heap[lastOp.src2]) /\ Len(heap[lastOp.src2]) >= 3

\* C7: no operation changes an existing selector's fragments or its string.
C7_Immutable ==
  [][ /\ Len(heap') >= Len(heap)
      /\ \A i \in 1..Len(heap) : heap'[i] = heap[i] /\ Stringify(heap'[i]) = Stringify(heap[i]) ]_vars

\* s = class('a'); s.class('a') kept in heap, then s.attr('a') also succeeds
C7_Witness ==
  /\ lastOp.op = "append" /\ lastOp.src = 2 /\ lastOp.result = "ok"
  /\ lastOp.kind = "attribute"
  /\ Len(heap) = 3 /\ heap[2] = <<[type |-> "class", value |-> "a"]>>
  /\ heap[3] = <<[type |-> "class", value |-> "a"], [type |-> "class", value |-> "a"]>>

ValidCompound(s) ==
  /\ \A k \in {"element", "id", "pseudo-element"} :
       Cardinality({i \in 1..Len(s) : s[i].type = k}) <= 1
  /\ \A i, j \in 1..Len(s) : i < j => SpecRank(s[i].type) <= SpecRank(s[j].type)

\* C8: every selector built by appends only (kept in heap or just returned by an
\* append) has at most one element, id and pseudo-element fragment, and its
\* fragments are in non-decreasing rank order.
C8_AppendOnlyValid ==
  /\ \A n \in 1..Len(heap) : NoCombinator(heap[n]) => ValidCompound(heap[n])
  /\ (lastOp.op = "append" /\ lastOp.result = "ok" /\ NoCombinator(lastOp.out))
       => ValidCompound(lastOp.out)

C8_Witness ==
  /\ lastOp.op = "append" /\ lastOp.result = "ok" /\ NoCombinator(lastOp.out)
  /\ Len(lastOp.out) = 3
  /\ lastOp.out[1].type # lastOp.out[2].type /\ lastOp.out[2].type # lastOp.out[3].type

\* C9: the facade itself is never modified and still stringifies to ''.
C9_FacadeUnchanged == heap[1] = <<>> /\ Stringify(heap[1]) = ""

C9_Witness ==
  /\ lastOp.op = "append" /\ lastOp.src = 1 /\ lastOp.result = "ok" /\ Len(heap) = 3

====
